---- MODULE Spec2Model ----
(***************************************************************************)
(* SegScript (src/main.py): fetch, cache and query time-aligned            *)
(* transcripts.                                                            *)
(*                                                                         *)
(* A Python str that the code inspects character by character (a time      *)
(* string, a range string) is a sequence of one-character strings; a str   *)
(* the code only concatenates or passes on (a snippet text, a message) is  *)
(* a TLA+ string.  A float is an exact decimal fraction [num, den]; the    *)
(* model does not round to binary64.  The directory ~/.segscript is the    *)
(* function store, whose DOMAIN is the set of video ids that have a file;  *)
(* store[v] is the dict that json.dump wrote and json.load reads back.     *)
(***************************************************************************)
EXTENDS Integers, Sequences, FiniteSets, TLC

VARIABLES store, arg, call, pc

vars == <<store, arg, call, pc>>

(***************************** bounds ***************************************)
\* longest time string given to parse_time_to_seconds on its own
MaxTimeLen == 5
\* longest range string given to query_transcript exhaustively
MaxRangeLen == 7
\* snippets per transcript, and their start / duration in seconds
MaxSnippets == 2
MaxStart == 2
MaxDuration == 1

(***************************** Python values ********************************)
Return(v) == [kind |-> "return", val |-> v]
ReturnNone == [kind |-> "none", val |-> "None"]
Raise(exc, args) == [kind |-> "raise", val |-> exc, args |-> args]

Digits == {"0", "1", "2", "3", "4", "5", "6", "7", "8", "9"}

DigitVal(c) ==
    CASE c = "0" -> 0 [] c = "1" -> 1 [] c = "2" -> 2 [] c = "3" -> 3
      [] c = "4" -> 4 [] c = "5" -> 5 [] c = "6" -> 6 [] c = "7" -> 7
      [] c = "8" -> 8 [] c = "9" -> 9

RECURSIVE Pow10(_)
Pow10(n) == IF n = 0 THEN 1 ELSE 10 * Pow10(n - 1)

\* the digits of s read left to right, as int() and float() accumulate them
RECURSIVE DigitsValue(_, _)
DigitsValue(s, acc) ==
    IF s = <<>> THEN acc
    ELSE DigitsValue(Tail(s), acc * 10 + DigitVal(Head(s)))

\* str.split(sep): the pieces between the occurrences of sep, always >= 1
RECURSIVE split_from(_, _, _, _)
split_from(s, sep, i, cur) ==
    IF i > Len(s) THEN <<cur>>
    ELSE IF s[i] = sep THEN <<cur>> \o split_from(s, sep, i + 1, <<>>)
    ELSE split_from(s, sep, i + 1, Append(cur, s[i]))

split(s, sep) == split_from(s, sep, 1, <<>>)

\* int(s) for s over the characters 0-9 : ; . a (no sign, blank or
\* underscore, which int() would also take): decimal digits only
py_int(s) ==
    IF s # <<>> /\ \A i \in 1..Len(s) : s[i] \in Digits
    THEN Return(DigitsValue(s, 0))
    ELSE Raise("ValueError", <<"invalid literal for int() with base 10", s>>)

\* float(s) over the same characters (no sign, blank, exponent, inf or
\* nan): digits with at most one '.', and at least one digit; the value is
\* exact, num / den
py_float(s) ==
    LET dots == {i \in 1..Len(s) : s[i] = "."}
        ok == /\ \A i \in 1..Len(s) : s[i] \in Digits \cup {"."}
              /\ Cardinality(dots) <= 1
              /\ \E i \in 1..Len(s) : s[i] \in Digits
        d == IF dots = {} THEN Len(s) + 1 ELSE CHOOSE i \in dots : TRUE
        whole == SubSeq(s, 1, d - 1)
        frac == SubSeq(s, d + 1, Len(s))
    IN  IF ok
        THEN Return([num |-> DigitsValue(whole \o frac, 0),
                     den |-> Pow10(Len(frac))])
        ELSE Raise("ValueError", <<"could not convert string to float", s>>)

\* int + float
AddInt(n, f) == [num |-> n * f.den + f.num, den |-> f.den]

(***************************** parse_time_to_seconds ************************)
\* mm_ss with the minutes taken as a clock's, modulo 60
mm_ss_clock(minutes, seconds) ==
    IF minutes.kind = "raise" THEN minutes
    ELSE IF seconds.kind = "raise" THEN seconds
    ELSE Return(AddInt((minutes.val % 60) * 60, seconds.val))

\* int(minutes) * 60 + float(seconds); the first conversion that raises ends
\* the call
mm_ss(minutes, seconds) ==
    IF minutes.kind = "raise" THEN minutes
    ELSE IF seconds.kind = "raise" THEN seconds
    ELSE Return(AddInt(minutes.val * 60, seconds.val))

\* int(hours) * 3600 + int(minutes) * 60 + float(seconds)
hh_mm_ss(hours, minutes, seconds) ==
    IF hours.kind = "raise" THEN hours
    ELSE IF minutes.kind = "raise" THEN minutes
    ELSE IF seconds.kind = "raise" THEN seconds
    ELSE Return(AddInt(hours.val * 3600 + minutes.val * 60, seconds.val))

\* parse_parts taking a single part as seconds
parse_parts_bare_seconds(parts) ==
    IF Len(parts) = 1 THEN py_float(parts[1])
    ELSE IF Len(parts) = 2
    THEN mm_ss(py_int(parts[1]), py_float(parts[2]))
    ELSE IF Len(parts) = 3
    THEN hh_mm_ss(py_int(parts[1]), py_int(parts[2]), py_float(parts[3]))
    ELSE Raise("ValueError",
               <<"Invalid time format. Use MM:SS or HH:MM:SS">>)

parse_parts(parts) ==
    IF Len(parts) = 2
    THEN mm_ss(py_int(parts[1]), py_float(parts[2]))
    ELSE IF Len(parts) = 3
    THEN hh_mm_ss(py_int(parts[1]), py_int(parts[2]), py_float(parts[3]))
    ELSE Raise("ValueError",
               <<"Invalid time format. Use MM:SS or HH:MM:SS">>)

parse_time_to_seconds(time_str) == parse_parts(split(time_str, ":"))

(***************************** the collaborators ****************************)
VideoIds == {"v1", "v2"}

Texts == {"hello", "world", "bye"}

Snippet(text, start, duration) ==
    [text |-> text, start |-> start, duration |-> duration]

\* YouTubeTranscriptApi().fetch(video_id) answers with the reply `up` of the
\* transcript source: a FetchedTranscript, or YouTubeTranscriptApiException
fetch(video_id, up) ==
    IF up.fails
    THEN Raise("YouTubeTranscriptApiException", <<video_id>>)
    ELSE Return([video_id |-> video_id, language |-> "English",
                 language_code |-> "en", is_generated |-> FALSE,
                 snippets |-> up.snippets])

\* open(output_path, "w") and json.dump: the file of video_id now holds d
write_file(st, video_id, d) ==
    [v \in DOMAIN st \cup {video_id} |-> IF v = video_id THEN d ELSE st[v]]

\* exists that finds no file
exists_never(st, video_id) == FALSE

\* Path.exists()
exists(st, video_id) == video_id \in DOMAIN st

(***************************** save_transcript ******************************)
\* for snippet in transcript.snippets: raw = raw + " " + snippet.text
RECURSIVE raw_transcript_loop(_, _)
raw_transcript_loop(snippets, raw_transcript) ==
    IF snippets = <<>> THEN raw_transcript
    ELSE raw_transcript_loop(Tail(snippets),
                             raw_transcript \o " " \o Head(snippets).text)

transcript_dict(transcript) ==
    [video_id |-> transcript.video_id,
     language |-> transcript.language,
     language_code |-> transcript.language_code,
     is_generated |-> transcript.is_generated,
     snippets |-> [i \in 1..Len(transcript.snippets) |->
                      Snippet(transcript.snippets[i].text,
                              transcript.snippets[i].start,
                              transcript.snippets[i].duration)],
     transcript |-> raw_transcript_loop(transcript.snippets, "")]

\* save_transcript that opens the output file before it fetches
save_transcript_opens_first(st, video_id, up) ==
    LET transcript == fetch(video_id, up)
    IN  IF transcript.kind = "raise"
        THEN [store |-> write_file(st, video_id,
                                   [video_id |-> video_id,
                                    snippets |-> <<>>, transcript |-> ""]),
              ret |-> Return(1), fetched |-> <<video_id>>]
        ELSE [store |-> write_file(st, video_id,
                                   transcript_dict(transcript.val)),
              ret |-> Return(0), fetched |-> <<video_id>>]

\* result: the store afterwards, the returned value, and the video ids for
\* which the transcript source was asked, in order
save_transcript(st, video_id, up) ==
    LET transcript == fetch(video_id, up)
    IN  IF transcript.kind = "raise"
        THEN [store |-> st, ret |-> Return(1), fetched |-> <<video_id>>]
        ELSE [store |-> write_file(st, video_id,
                                   transcript_dict(transcript.val)),
              ret |-> Return(0), fetched |-> <<video_id>>]

(***************************** query_transcript *****************************)
FetchError == "Error: Failed to fetch transcript!"

FormatError ==
    "Error: Invalid time range format. Use 'start_time;end_time' (e.g., '10:00;20:00')"

\* start_seconds and end_seconds, or the ValueError of the first parse that
\* raises
window_of(start_seconds, end_seconds) ==
    IF start_seconds.kind = "raise" THEN start_seconds
    ELSE IF end_seconds.kind = "raise" THEN end_seconds
    ELSE Return([start_seconds |-> start_seconds.val,
                 end_seconds |-> end_seconds.val])

\* start_time_str, end_time_str = time_range.split(";"): unpacking anything
\* but two pieces is a ValueError too
unpack_range(parts) ==
    IF Len(parts) < 2
    THEN Raise("ValueError", <<"not enough values to unpack">>)
    ELSE IF Len(parts) > 2
    THEN Raise("ValueError", <<"too many values to unpack">>)
    ELSE window_of(parse_time_to_seconds(parts[1]),
                   parse_time_to_seconds(parts[2]))

\* the body of try ... except ValueError
parse_range(time_range) == unpack_range(split(time_range, ";"))

\* overlaps with the window's end excluded
overlaps_end_excluded(snippet, start_seconds, end_seconds) ==
    LET snippet_start == snippet.start
        snippet_end == snippet_start + snippet.duration
    IN  /\ snippet_start * end_seconds.den < end_seconds.num
        /\ snippet_end * start_seconds.den >= start_seconds.num

\* snippet_start <= end_seconds and snippet_end >= start_seconds
overlaps(snippet, start_seconds, end_seconds) ==
    LET snippet_start == snippet.start
        snippet_end == snippet_start + snippet.duration
    IN  /\ snippet_start * end_seconds.den <= end_seconds.num
        /\ snippet_end * start_seconds.den >= start_seconds.num

RECURSIVE filter_loop(_, _, _, _)
filter_loop(snippets, start_seconds, end_seconds, filtered_snippets) ==
    IF snippets = <<>> THEN filtered_snippets
    ELSE filter_loop(Tail(snippets), start_seconds, end_seconds,
                     IF overlaps(Head(snippets), start_seconds, end_seconds)
                     THEN Append(filtered_snippets, Head(snippets))
                     ELSE filtered_snippets)

\* sep.join(texts)
RECURSIVE str_join(_, _)
str_join(sep, texts) ==
    IF texts = <<>> THEN ""
    ELSE IF Len(texts) = 1 THEN texts[1]
    ELSE texts[1] \o sep \o str_join(sep, Tail(texts))

\* the texts of the snippets the loop kept
texts_of(filtered_snippets) ==
    [i \in 1..Len(filtered_snippets) |-> filtered_snippets[i].text]

\* query_window with the ValueError let through
query_window_uncaught(snippets, window) ==
    IF window.kind = "raise" THEN window
    ELSE Return(str_join(" ", texts_of(
             filter_loop(snippets, window.val.start_seconds,
                         window.val.end_seconds, <<>>))))

\* except ValueError: the format error; else the filter and the join
query_window(snippets, window) ==
    IF window.kind = "raise" THEN Return(FormatError)
    ELSE Return(str_join(" ", texts_of(
             filter_loop(snippets, window.val.start_seconds,
                         window.val.end_seconds, <<>>))))

\* query_loaded that joins the snippets again for the full transcript
query_loaded_rejoined(transcript_data, time_range) ==
    IF time_range = <<>>
    THEN Return(raw_transcript_loop(transcript_data.snippets, ""))
    ELSE query_window(transcript_data.snippets, parse_range(time_range))

\* the part of query_transcript after the file is known to exist
query_loaded(transcript_data, time_range) ==
    IF time_range = <<>> THEN Return(transcript_data.transcript)
    ELSE query_window(transcript_data.snippets, parse_range(time_range))

\* open(transcript_file) and json.load
read_file(st, video_id) == st[video_id]

\* after save_transcript was called for a missing file
query_fetched(saved, video_id, time_range) ==
    IF saved.ret.val # 0
    THEN [store |-> saved.store, ret |-> Return(FetchError),
          fetched |-> saved.fetched]
    ELSE [store |-> saved.store,
          ret |-> query_loaded(read_file(saved.store, video_id), time_range),
          fetched |-> saved.fetched]

\* query_transcript that checks the range string before it fetches
query_transcript_range_first(st, video_id, time_range, up) ==
    IF time_range # <<>> /\ parse_range(time_range).kind = "raise"
    THEN [store |-> st, ret |-> Return(FormatError), fetched |-> <<>>]
    ELSE IF ~exists(st, video_id)
    THEN query_fetched(save_transcript(st, video_id, up), video_id,
                       time_range)
    ELSE [store |-> st,
          ret |-> query_loaded(read_file(st, video_id), time_range),
          fetched |-> <<>>]

query_transcript(st, video_id, time_range, up) ==
    IF ~exists(st, video_id)
    THEN query_fetched(save_transcript(st, video_id, up), video_id,
                       time_range)
    ELSE [store |-> st, ret |-> query_loaded(read_file(st, video_id), time_range),
          fetched |-> <<>>]

(***************************** get_raw_transcripts **************************)
\* json.load gives a dict, and transcript_data.transcript is an attribute
\* access on it: AttributeError, which except FileNotFoundError lets through
get_raw_transcripts(st, video_id) ==
    IF ~exists(st, video_id)
    THEN [store |-> st, ret |-> ReturnNone, fetched |-> <<>>]
    ELSE [store |-> st,
          ret |-> Raise("AttributeError",
                        <<"'dict' object has no attribute 'transcript'">>),
          fetched |-> <<>>]

(***************************** main *****************************************)
\* main prints what the call returned and returns None; what the call
\* raises, main raises
main_print(res, fetched) ==
    [store |-> res.store,
     ret |-> IF res.ret.kind = "raise" THEN res.ret ELSE ReturnNone,
     fetched |-> fetched \o res.fetched]

\* the query options, once the transcript file is there
main_options(st, video_id, choice, time_range, up, fetched) ==
    IF choice = "1"
    THEN main_print(get_raw_transcripts(st, video_id), fetched)
    ELSE IF choice = "2"
    THEN main_print(query_transcript(st, video_id, time_range, up), fetched)
    ELSE [store |-> st, ret |-> ReturnNone, fetched |-> fetched]

\* after save_transcript was called for a missing file
main_fetched(saved, video_id, choice, time_range, up) ==
    IF saved.ret.val = 0
    THEN main_options(saved.store, video_id, choice, time_range, up,
                      saved.fetched)
    ELSE [store |-> saved.store, ret |-> ReturnNone,
          fetched |-> saved.fetched]

main(st, video_id, choice, time_range, up) ==
    IF exists(st, video_id)
    THEN main_options(st, video_id, choice, time_range, up, <<>>)
    ELSE main_fetched(save_transcript(st, video_id, up), video_id, choice,
                      time_range, up)

(***************************** inputs ***************************************)
\* all strings over alphabet of length at most n
Strings(alphabet, n) == UNION {[1..k -> alphabet] : k \in 0..n}

\* all sequences over S of length at most n
SeqsUpTo(S, n) == UNION {[1..k -> S] : k \in 0..n}

Fails == [fails |-> TRUE, snippets |-> <<>>]
Reply(snippets) == [fails |-> FALSE, snippets |-> snippets]

\* the transcript of the end-to-end scenario
Scenario ==
    <<Snippet("hello", 0, 5), Snippet("world", 4, 3), Snippet("bye", 20, 2)>>

\* what the transcript source may answer
UpstreamReplies == {Fails, Reply(<<>>), Reply(Scenario)}

QueryReplies == {Fails, Reply(Scenario)}

\* a file found in ~/.segscript when the program starts: written by an
\* earlier run, or changed on disk since then
FoundOnDisk(v) ==
    {transcript_dict(fetch(v, Reply(Scenario)).val),
     [transcript_dict(fetch(v, Reply(Scenario)).val)
         EXCEPT !.transcript = "edited by hand"],
     [transcript_dict(fetch(v, Reply(<<>>)).val)
         EXCEPT !.transcript = "hello"]}

InitStores ==
    UNION {{st \in [D -> UNION {FoundOnDisk(v) : v \in D}] :
               \A v \in D : st[v] \in FoundOnDisk(v)} : D \in SUBSET VideoIds}

\* range strings given to a query (main reads one only after choice "2"): none, well-formed (0:03 to 0:06,
\* reversed, past the end, fractional seconds, h:m:s) and malformed
RangeInputs ==
    {<<>>,
     <<"0", ":", "0", "3", ";", "0", ":", "0", "6">>,
     <<"0", ":", "0", "6", ";", "0", ":", "0", "3">>,
     <<"1", ":", "0", "0", ";", "2", ":", "0", "0">>,
     <<"0", ":", "7", ".", "5", ";", "0", ":", "0", ":", "2", "0">>,
     <<"a", "b", "c">>,
     <<"0", ":", "0", "3">>,
     <<"0", ":", "0", "3", ";", "6">>}

Choices == {"1", "2", "3"}

\* windows over the first seconds, for transcripts of short snippets
Windows ==
    {<<"0", ":", "0", ";", "0", ":", "0">>,
     <<"0", ":", "0", ";", "0", ":", "1">>,
     <<"0", ":", "1", ";", "0", ":", "2">>,
     <<"0", ":", "2", ";", "0", ":", "0">>,
     <<"0", ":", "1", ";", "0", ":", "0">>,
     <<"0", ":", "1", ".", "5", ";", "0", ":", "2", ".", "5">>,
     <<"0", ":", "0", ":", "3", ";", "0", ":", "9">>,
     <<"0", ":", "6", ";", "1", ":", "0">>}

Snippets == {Snippet(t, s, d) : t \in {"hello", "world"},
                                s \in 0..MaxStart, d \in 0..MaxDuration}

TimeAlphabet == {"0", "1", "9", ":", ".", "a"}

RangeAlphabet == {"1", ":", ";", "a"}

NoArg == [video_id |-> "", time_range |-> <<>>, time_str |-> <<>>]

\* a finished call: its arguments, the reply of the transcript source that
\* was there for it, what it returned or raised, the video ids it asked the
\* source for, and the store before it
Call(op, video_id, time_range, choice, up, res, pre) ==
    [op |-> op, video_id |-> video_id, time_range |-> time_range,
     choice |-> choice, up |-> up, ret |-> res.ret,
     fetched |-> res.fetched, pre |-> pre]

NoCall(st) ==
    Call("none", "", <<>>, "", Fails,
         [ret |-> ReturnNone, fetched |-> <<>>], st)

(***************************** the program in use ***************************)
Init ==
    /\ store \in InitStores
    /\ arg = NoArg
    /\ call = NoCall(store)
    /\ pc = "run"

SaveTranscript ==
    /\ pc = "run"
    /\ \E video_id \in VideoIds, up \in UpstreamReplies :
          LET res == save_transcript(store, video_id, up)
          IN  /\ store' = res.store
              /\ call' = Call("save_transcript", video_id, <<>>, "", up, res,
                              store)
    /\ UNCHANGED <<arg, pc>>

QueryTranscript ==
    /\ pc = "run"
    /\ \E video_id \in VideoIds, time_range \in RangeInputs,
          up \in UpstreamReplies :
          LET res == query_transcript(store, video_id, time_range, up)
          IN  /\ store' = res.store
              /\ call' = Call("query_transcript", video_id, time_range, "",
                              up, res, store)
    /\ UNCHANGED <<arg, pc>>

GetRawTranscripts ==
    /\ pc = "run"
    /\ \E video_id \in VideoIds :
          LET res == get_raw_transcripts(store, video_id)
          IN  /\ store' = res.store
              /\ call' = Call("get_raw_transcripts", video_id, <<>>, "",
                              Fails, res, store)
    /\ UNCHANGED <<arg, pc>>

Main ==
    /\ pc = "run"
    /\ \E video_id \in VideoIds, choice \in Choices, up \in UpstreamReplies :
       \E time_range \in IF choice = "2" THEN RangeInputs ELSE {<<>>} :
          LET res == main(store, video_id, choice, time_range, up)
          IN  /\ store' = res.store
              /\ call' = Call("main", video_id, time_range, choice, up, res,
                              store)
    /\ UNCHANGED <<arg, pc>>

Next == SaveTranscript \/ QueryTranscript \/ GetRawTranscripts \/ Main

Spec == Init /\ [][Next]_vars

(***************************** the parser on its own ************************)
InitParse ==
    /\ store = << >>
    /\ \E time_str \in Strings(TimeAlphabet, MaxTimeLen) :
          arg = [NoArg EXCEPT !.time_str = time_str]
    /\ call = NoCall(store)
    /\ pc = "ready"

ParseTimeToSeconds ==
    /\ pc = "ready"
    /\ call' = Call("parse_time_to_seconds", "", <<>>, "", Fails,
                    [ret |-> parse_time_to_seconds(arg.time_str),
                     fetched |-> <<>>], store)
    /\ pc' = "done"
    /\ UNCHANGED <<store, arg>>

NextParse == ParseTimeToSeconds

SpecParse == InitParse /\ [][NextParse]_vars

(***************************** one query, over all inputs *******************)
\* either every range string up to MaxRangeLen against no file or one file,
\* or every short transcript on file against each window
InitQuery ==
    /\ \/ /\ store \in {<< >>,
                        [v \in {"v1"} |->
                            transcript_dict(fetch(v, Reply(Scenario)).val)]}
          /\ \E time_range \in Strings(RangeAlphabet, MaxRangeLen) :
                arg = [NoArg EXCEPT !.video_id = "v1",
                                    !.time_range = time_range]
       \/ /\ \E snippets \in SeqsUpTo(Snippets, MaxSnippets) :
                store = [v \in {"v1"} |->
                            transcript_dict(fetch(v, Reply(snippets)).val)]
          /\ \E time_range \in Windows :
                arg = [NoArg EXCEPT !.video_id = "v1",
                                    !.time_range = time_range]
    /\ call = NoCall(store)
    /\ pc = "ready"

QueryOnce ==
    /\ pc = "ready"
    /\ \E up \in QueryReplies :
          LET res == query_transcript(store, arg.video_id, arg.time_range, up)
          IN  /\ store' = res.store
              /\ call' = Call("query_transcript", arg.video_id,
                              arg.time_range, "", up, res, store)
    /\ pc' = "done"
    /\ UNCHANGED arg

NextQuery == QueryOnce

SpecQuery == InitQuery /\ [][NextQuery]_vars

(***************************** vocabulary of the properties *****************)
\* a non-empty string of decimal digits
IsDigitString(s) == Len(s) >= 1 /\ \A i \in 1..Len(s) : s[i] \in Digits

\* a decimal real: digits, of which there is at least one, around at most
\* one point
IsRealString(s) ==
    LET others == {i \in 1..Len(s) : s[i] \notin Digits}
    IN  /\ Cardinality(others) <= 1
        /\ \A i \in others : s[i] = "."
        /\ Len(s) > Cardinality(others)

Before(s, i) == SubSeq(s, 1, i - 1)
After(s, i) == SubSeq(s, i + 1, Len(s))
Between(s, i, j) == SubSeq(s, i + 1, j - 1)

\* s is m:s, cut at the colon at i
IsMMSS(s, i) ==
    /\ s[i] = ":"
    /\ IsDigitString(Before(s, i))
    /\ IsRealString(After(s, i))

\* s is h:m:s, cut at the colons at i and j
IsHHMMSS(s, i, j) ==
    /\ i < j /\ s[i] = ":" /\ s[j] = ":"
    /\ IsDigitString(Before(s, i))
    /\ IsDigitString(Between(s, i, j))
    /\ IsRealString(After(s, j))

IsTimecode(s) ==
    \E i \in 1..Len(s) : IsMMSS(s, i) \/ \E j \in 1..Len(s) : IsHHMMSS(s, i, j)

\* start;end with both sides timecodes
IsRange(r) ==
    \E k \in 1..Len(r) :
        r[k] = ";" /\ IsTimecode(Before(r, k)) /\ IsTimecode(After(r, k))

Malformed(r) == r # <<>> /\ ~IsRange(r)

\* the number a digit string writes: the digit at i counts 10^(Len - i)
RECURSIVE PlaceSum(_, _)
PlaceSum(s, i) ==
    IF i > Len(s) THEN 0
    ELSE DigitVal(s[i]) * Pow10(Len(s) - i) + PlaceSum(s, i + 1)

Numeral(s) == PlaceSum(s, 1)

\* the digits of a decimal real without its point, where the point is, and
\* how many digits follow it
DigitsOf(s) == SelectSeq(Before(s, Len(s) + 1), LAMBDA c : c \in Digits)
PointAt(s) ==
    IF \E i \in 1..Len(s) : s[i] = "." THEN CHOOSE i \in 1..Len(s) : s[i] = "."
    ELSE Len(s) + 1
FracLen(s) == Len(s) - PointAt(s) + (IF PointAt(s) > Len(s) THEN 1 ELSE 0)

\* the float r equals whole + the decimal real s
IsSum(r, whole, s) ==
    r.num * Pow10(FracLen(s)) =
        (whole * Pow10(FracLen(s)) + Numeral(DigitsOf(s))) * r.den

Parsed == call.op = "parse_time_to_seconds"
Queried == call.op = "query_transcript"

\* the texts of the snippets at the indices in idx, in order, one space
\* between neighbours
RECURSIVE SpaceJoined(_, _)
SpaceJoined(snippets, idx) ==
    IF idx = {} THEN ""
    ELSE LET last == CHOOSE i \in idx : \A j \in idx : j <= i
         IN  IF idx = {last} THEN snippets[last].text
             ELSE SpaceJoined(snippets, idx \ {last}) \o " "
                      \o snippets[last].text

(***************************** C6 *******************************************)
\* C6: a time string m:s of numeric parts parses to m*60 + s, and h:m:s to
\* h*3600 + m*60 + s, with h and m integers of any size (no clamping at 60)
C6_ParsePositional ==
    Parsed =>
        \A i \in 1..Len(arg.time_str) :
            /\ IsMMSS(arg.time_str, i) =>
                  /\ call.ret.kind = "return"
                  /\ IsSum(call.ret.val,
                           Numeral(Before(arg.time_str, i)) * 60,
                           After(arg.time_str, i))
            /\ \A j \in 1..Len(arg.time_str) :
                  IsHHMMSS(arg.time_str, i, j) =>
                      /\ call.ret.kind = "return"
                      /\ IsSum(call.ret.val,
                               Numeral(Before(arg.time_str, i)) * 3600
                                 + Numeral(Between(arg.time_str, i, j)) * 60,
                               After(arg.time_str, j))

\* 90:00 was parsed, and gave 5400 seconds
C6_Witness ==
    /\ Parsed
    /\ arg.time_str = <<"9", "0", ":", "0", "0">>
    /\ call.ret = Return([num |-> 5400, den |-> 1])

(***************************** C7 *******************************************)
ColonCount(s) == Cardinality({i \in 1..Len(s) : s[i] = ":"})

RaisedValueError == call.ret.kind = "raise" /\ call.ret.val = "ValueError"

\* the error carries a piece of the time string, cut at its colons or whole
NamesOffendingString ==
    /\ Len(call.ret.args) = 2
    /\ \/ call.ret.args[2] = arg.time_str
       \/ \E k \in 1..Len(split(arg.time_str, ":")) :
             call.ret.args[2] = split(arg.time_str, ":")[k]

\* C7 as stated: a time string that is not m:s or h:m:s of numeric parts
\* fails with a FormatError that identifies the offending string
C7_AsStated ==
    Parsed /\ ~IsTimecode(arg.time_str) =>
        RaisedValueError /\ NamesOffendingString

\* C7: a time string that is not m:s or h:m:s of numeric parts fails with
\* ValueError and gives no number; the error names the part that failed
\* numeric parsing when there are 2 or 3 parts, and is the fixed text
\* "Invalid time format. Use MM:SS or HH:MM:SS" for any other count
C7_ParseRejects ==
    Parsed /\ ~IsTimecode(arg.time_str) =>
        /\ RaisedValueError
        /\ IF ColonCount(arg.time_str) \in {1, 2}
           THEN /\ NamesOffendingString
                /\ ~IsRealString(call.ret.args[2])
                     \/ ~IsDigitString(call.ret.args[2])
           ELSE call.ret.args =
                    <<"Invalid time format. Use MM:SS or HH:MM:SS">>

\* 90, a single part, was rejected with the fixed text
C7_Witness ==
    /\ Parsed
    /\ arg.time_str = <<"9", "0">>
    /\ RaisedValueError
    /\ ~NamesOffendingString

(***************************** C1 *******************************************)
\* the window the range string of the call parses to
Window == parse_range(call.time_range).val

\* the indices of the snippets f on file with f.start <= end_seconds and
\* f.start + f.duration >= start_seconds
InWindow(snippets) ==
    {i \in 1..Len(snippets) :
        /\ snippets[i].start * Window.end_seconds.den
              <= Window.end_seconds.num
        /\ (snippets[i].start + snippets[i].duration)
              * Window.start_seconds.den >= Window.start_seconds.num}

\* C1: with a parsed window, reversed or not, and any snippets on file, the
\* range query returns the texts of exactly the snippets that overlap the
\* window, each once, in order, joined by one space; "" when none overlaps
C1_RangeQuerySelectsOverlap ==
    /\ Queried
    /\ IsRange(call.time_range)
    /\ call.video_id \in DOMAIN store
    => call.ret = Return(SpaceJoined(store[call.video_id].snippets,
                                     InWindow(store[call.video_id].snippets)))

\* a reversed window, 0:1 to 0:0, kept the second of two snippets only
C1_Witness ==
    /\ Queried
    /\ call.time_range = <<"0", ":", "1", ";", "0", ":", "0">>
    /\ call.video_id \in DOMAIN store
    /\ Len(store[call.video_id].snippets) = 2
    /\ InWindow(store[call.video_id].snippets) = {2}
    /\ call.ret = Return(store[call.video_id].snippets[2].text)

(***************************** C5 *******************************************)
\* the record was on file before the call, or the source could supply it
Available == call.video_id \in DOMAIN call.pre \/ ~call.up.fails

\* C5: with a record available, a malformed non-empty range string makes
\* query return the format-error string, and nothing is raised
C5_MalformedRangeIsReturned ==
    Queried /\ Malformed(call.time_range) /\ Available =>
        call.ret = Return(FormatError)

\* 1:1;1:a, whose end is no timecode, was answered with the format-error
\* string for a video on file
C5_Witness ==
    /\ Queried
    /\ call.time_range = <<"1", ":", "1", ";", "1", ":", "a">>
    /\ call.video_id \in DOMAIN call.pre
    /\ call.ret = Return(FormatError)

(***************************** C10 ******************************************)
\* C10: with no record on file and a malformed range string, query still asks
\* the source once; if that succeeds the record is on file and the
\* format-error string is returned, if it fails the fetch-failure string is
C10_FetchPrecedesValidation ==
    Queried /\ Malformed(call.time_range)
      /\ call.video_id \notin DOMAIN call.pre =>
        /\ call.fetched = <<call.video_id>>
        /\ ~call.up.fails =>
              /\ call.video_id \in DOMAIN store
              /\ store[call.video_id].snippets = call.up.snippets
              /\ call.ret = Return(FormatError)
        /\ call.up.fails =>
              /\ call.ret = Return(FetchError)
              /\ store = call.pre

\* a malformed range for a video not on file: the record was fetched and
\* saved, and the format error returned
C10_Witness ==
    /\ Queried
    /\ call.time_range = <<"1", ":", "a", ";", "1", ":", "1">>
    /\ call.video_id \notin DOMAIN call.pre
    /\ call.video_id \in DOMAIN store
    /\ call.fetched = <<call.video_id>>
    /\ call.ret = Return(FormatError)

(***************************** C2 *******************************************)
\* C2: get_raw_transcripts returns the full text on file when there is a
\* record for the video id and None when there is none; it raises nothing,
\* asks the source for nothing and leaves the store as it was
C2_LoadCachedFullText ==
    call.op = "get_raw_transcripts" =>
        /\ call.ret.kind # "raise"
        /\ call.video_id \in DOMAIN call.pre =>
              call.ret = Return(call.pre[call.video_id].transcript)
        /\ call.video_id \notin DOMAIN call.pre => call.ret = ReturnNone
        /\ call.fetched = <<>>
        /\ store = call.pre

(***************************** C3 *******************************************)
\* C3: a call of query_transcript or main asks the source at most once, only
\* for its own video id and only when it found no record of it on file; with
\* a record on file it asks for nothing and leaves the store as it was
C3_FetchOnlyWhenMissing ==
    call.op \in {"query_transcript", "main"} =>
        /\ Len(call.fetched) <= 1
        /\ \A k \in 1..Len(call.fetched) :
              /\ call.fetched[k] = call.video_id
              /\ call.video_id \notin DOMAIN call.pre
        /\ call.video_id \in DOMAIN call.pre =>
              call.fetched = <<>> /\ store = call.pre

\* main fetched a missing transcript and then ran a range query on it, with
\* one request to the source in all
C3_Witness ==
    /\ call.op = "main"
    /\ call.choice = "2"
    /\ call.time_range # <<>>
    /\ call.video_id \notin DOMAIN call.pre
    /\ call.video_id \in DOMAIN store
    /\ call.fetched = <<call.video_id>>

(***************************** C4 *******************************************)
\* C4: when the source fails for a video id with no record on file,
\* save_transcript returns 1, query_transcript returns the fetch-failure
\* string, and the store is as before: no record of that video id
C4_FailedFetchLeavesNoRecord ==
    /\ call.up.fails
    /\ call.video_id \notin DOMAIN call.pre
    /\ call.op \in {"save_transcript", "query_transcript"}
    => /\ call.op = "save_transcript" => call.ret = Return(1)
       /\ call.op = "query_transcript" => call.ret = Return(FetchError)
       /\ store = call.pre
       /\ call.video_id \notin DOMAIN store

\* a range query for a video not on file met a failing source
C4_Witness ==
    /\ Queried
    /\ call.up.fails
    /\ call.video_id \notin DOMAIN call.pre
    /\ call.fetched = <<call.video_id>>
    /\ call.time_range # <<>>
    /\ call.ret = Return(FetchError)

(***************************** C8 *******************************************)
\* C8: with a record on file, query with the empty range string returns the
\* full text stored in it, whatever its snippets are, and changes nothing
C8_FullTextAsStored ==
    Queried /\ call.time_range = <<>>
      /\ call.video_id \in DOMAIN call.pre =>
        /\ call.ret = Return(call.pre[call.video_id].transcript)
        /\ store = call.pre

\* the full text returned is one that no joining of the snippets gives
C8_Witness ==
    /\ Queried
    /\ call.time_range = <<>>
    /\ call.video_id \in DOMAIN call.pre
    /\ Len(call.pre[call.video_id].snippets) = 3
    /\ call.ret = Return("edited by hand")

(***************************** C9 *******************************************)
AllOf(snippets) == 1..Len(snippets)

\* C9: the record a successful save_transcript writes has as full text its
\* snippet texts in order with one space between neighbours, the string the
\* range query gives for a window that overlaps them all
C9_FullTextIsSpaceJoin ==
    call.op = "save_transcript" /\ call.ret.val = 0 =>
        /\ call.video_id \in DOMAIN store
        /\ store[call.video_id].transcript =
              SpaceJoined(store[call.video_id].snippets,
                          AllOf(store[call.video_id].snippets))
        /\ store[call.video_id].transcript =
              str_join(" ", texts_of(store[call.video_id].snippets))

====
